---- MODULE Spec2Model ----
(***************************************************************************)
(* Model of supabase/functions/analyze-payment/index.ts: one request to    *)
(* the handler of serve and the call of analyzeImage it makes, from the    *)
(* decoding of the payload through the binary                              *)
(* forensic phase, the sequential queries of the vision backends, the      *)
(* merge of their answers, the AI phase and the verdict.                   *)
(*                                                                         *)
(* The byte-level detectors (detectImageFormat, checkExifPresence,         *)
(* detectEditingSoftware, detectAppSignatures, detectRecompression,        *)
(* analyzePNG, analyzeJPEG) are pure functions of the buffer; in this      *)
(* specification their results are the inputs of the scan, drawn from the  *)
(* values each of them can return.  Message texts and descriptions are     *)
(* not modelled: a Finding is its severity and the detector that emitted   *)
(* it.                                                                     *)
(***************************************************************************)
EXTENDS Integers, Sequences, FiniteSets, TLC

\* ---------------------------------------------------------------- bounds
\* largest number of names detectEditingSoftware and detectAppSignatures
\* return together
MaxSignatures == 2
\* largest number of categories one backend reports in one answer
MaxReported == 2
MaxBytes == 6
MaxCalls == 3
MaxClicks == 4

\* ------------------------------------------------------------- constants
Formats == {"PNG", "JPEG", "UNKNOWN"}

\* AIFindingKey, in the order of the keys array
Keys == <<"clonedRegions", "lightingInconsistencies", "pixelManipulation",
          "fontInconsistencies", "colorAnomalies", "artificialElements">>

KeySet == {Keys[i] : i \in 1..Len(Keys)}

\* the models queried when AI_MODELS is not set
DefaultModels == <<"openai/gpt-4o-mini", "anthropic/claude-3.5-sonnet-20240620">>

\* values of AI_MODELS after split/trim/filter: unset or empty (<< >>), one
\* model, the same model twice
ModelConfigs == {<< >>, <<"openai/gpt-4o-mini">>,
                 <<"openai/gpt-4o-mini", "openai/gpt-4o-mini">>}

ConfiguredOrDefault(configured) ==
    IF Len(configured) > 0 THEN configured ELSE DefaultModels

\* ------------------------------------------------------- evidence ledger
EmptyEntry == [warning |-> {}, critical |-> {}]

EmptyLedger == [evidence |-> << >>, riskScore |-> 0]

severityWeights(category) ==
    CASE category = "metadata"    -> [warning |-> 6,  critical |-> 14]
      [] category = "compression" -> [warning |-> 10, critical |-> 18]
      [] category = "format"      -> [warning |-> 8,  critical |-> 16]
      [] category = "ai"          -> [warning |-> 12, critical |-> 25]
      [] OTHER                    -> [warning |-> 6,  critical |-> 14]

\* variant: the weight is added for a new identifier only
addEvidence_OncePerSignal(L, category, signal, severity) ==
    LET entry    == IF category \in DOMAIN L.evidence
                    THEN L.evidence[category] ELSE EmptyEntry
        newEntry == [entry EXCEPT ![severity] = @ \cup {signal}]
    IN  [evidence  |-> [c \in (DOMAIN L.evidence) \cup {category} |->
                          IF c = category THEN newEntry ELSE L.evidence[c]],
         riskScore |-> IF signal \in entry[severity]
                       THEN L.riskScore
                       ELSE L.riskScore + severityWeights(category)[severity]]

\* variant: a critical identifier is taken out of the warnings
addEvidence_Upgrade(L, category, signal, severity) ==
    LET entry    == IF category \in DOMAIN L.evidence
                    THEN L.evidence[category] ELSE EmptyEntry
        newEntry == IF severity = "critical"
                    THEN [warning |-> entry.warning \ {signal},
                          critical |-> entry.critical \cup {signal}]
                    ELSE [entry EXCEPT ![severity] = @ \cup {signal}]
    IN  [evidence  |-> [c \in (DOMAIN L.evidence) \cup {category} |->
                          IF c = category THEN newEntry ELSE L.evidence[c]],
         riskScore |-> L.riskScore + severityWeights(category)[severity]]

addEvidence(L, category, signal, severity) ==
    LET entry    == IF category \in DOMAIN L.evidence
                    THEN L.evidence[category] ELSE EmptyEntry
        newEntry == [entry EXCEPT ![severity] = @ \cup {signal}]
    IN  [evidence  |-> [c \in (DOMAIN L.evidence) \cup {category} |->
                          IF c = category THEN newEntry ELSE L.evidence[c]],
         riskScore |-> L.riskScore + severityWeights(category)[severity]]

RECURSIVE SumOver(_, _, _)
SumOver(ev, cats, severity) ==
    IF cats = {} THEN 0
    ELSE LET c == CHOOSE x \in cats : TRUE
         IN  Cardinality(ev[c][severity]) + SumOver(ev, cats \ {c}, severity)

getEvidenceCount(ev, severity) == SumOver(ev, DOMAIN ev, severity)

\* getCategoryCount() without argument
getCategoryCountAny(ev) ==
    Cardinality({c \in DOMAIN ev : ev[c].warning # {} \/ ev[c].critical # {}})

getCategoryCount(ev, severity) ==
    Cardinality({c \in DOMAIN ev : ev[c][severity] # {}})

\* ------------------------------------------- phase 1: binary forensics
\* The locals of analyzeImage that the scan updates, as one record.
InitialScan ==
    [findings |-> << >>, confidence |-> 100, ledger |-> EmptyLedger,
     editingSoftware |-> 0, editingDetected |-> FALSE,
     compressionAnomalies |-> FALSE, metadataInconsistencies |-> FALSE,
     jpegQualityInconsistent |-> FALSE]

Finding(type, detector) == [type |-> type, detector |-> detector]

\* lines 142-149: missing EXIF on a JPEG
ExifStep(s, fmt, exif) ==
    IF fmt = "JPEG" /\ ~exif
    THEN [s EXCEPT !.findings = Append(@, Finding("warning", "exif")),
                   !.confidence = @ - 10,
                   !.metadataInconsistencies = TRUE]
    ELSE s

\* variant: an off-by-one in the comparison
strongMetadataEvidence_OffByOne(nSoftware, nApps) == nSoftware + nApps > 2

strongMetadataEvidence(nSoftware, nApps) == nSoftware + nApps > 1

\* lines 156-171: editing software named in the metadata
SoftwareStep(s, nSoftware, nApps) ==
    IF nSoftware > 0
    THEN IF strongMetadataEvidence(nSoftware, nApps)
         THEN [s EXCEPT !.editingSoftware = nSoftware,
                        !.findings = Append(@, Finding("critical", "editing-software")),
                        !.editingDetected = TRUE,
                        !.confidence = @ - 30,
                        !.ledger = addEvidence(@, "metadata", "editing-software", "critical")]
         ELSE [s EXCEPT !.editingSoftware = nSoftware,
                        !.findings = Append(@, Finding("warning", "editing-software")),
                        !.confidence = @ - 8,
                        !.ledger = addEvidence(@, "metadata", "editing-software", "warning")]
    ELSE s

\* lines 174-183: several compression signatures
RecompressionStep(s, recompression) ==
    IF recompression
    THEN [s EXCEPT !.compressionAnomalies = TRUE,
                   !.findings = Append(@, Finding("warning", "recompression")),
                   !.confidence = @ - 15,
                   !.ledger = addEvidence(@, "compression", "recompression", "warning")]
    ELSE s

\* lines 186-208: the format-specific check; analyzePNG runs for a PNG only
\* and analyzeJPEG for a JPEG only
FormatStep(s, fmt, suspicious, qualityInconsistent) ==
    IF fmt = "PNG"
    THEN IF suspicious
         THEN [s EXCEPT !.findings = Append(@, Finding("warning", "png-metadata")),
                        !.confidence = @ - 10,
                        !.ledger = addEvidence(@, "format", "png-metadata", "warning")]
         ELSE s
    ELSE IF fmt = "JPEG"
         THEN IF qualityInconsistent
              THEN [s EXCEPT !.compressionAnomalies = TRUE,
                             !.jpegQualityInconsistent = TRUE,
                             !.findings = Append(@, Finding("critical", "quality")),
                             !.confidence = @ - 25,
                             !.ledger = addEvidence(@, "compression", "quality", "critical")]
              ELSE s
         ELSE s

\* variant: one of the two detectors is enough
StackedStep_Either(s, fmt, recompression) ==
    IF fmt = "JPEG" /\ (recompression \/ s.jpegQualityInconsistent)
    THEN [s EXCEPT !.findings = Append(@, Finding("critical", "stacked-compression-signals")),
                   !.confidence = @ - 18,
                   !.ledger = addEvidence(@, "compression", "stacked-compression-signals", "critical")]
    ELSE s

\* lines 210-217: recompression together with shifting quality levels
StackedStep(s, fmt, recompression) ==
    IF fmt = "JPEG" /\ recompression /\ s.jpegQualityInconsistent
    THEN [s EXCEPT !.findings = Append(@, Finding("critical", "stacked-compression-signals")),
                   !.confidence = @ - 18,
                   !.ledger = addEvidence(@, "compression", "stacked-compression-signals", "critical")]
    ELSE s

\* lines 220-234: editing apps named in the metadata
AppStep(s, nSoftware, nApps) ==
    IF nApps > 0
    THEN IF strongMetadataEvidence(nSoftware, nApps)
         THEN [s EXCEPT !.findings = Append(@, Finding("critical", "app-signature")),
                        !.editingDetected = TRUE,
                        !.confidence = @ - 25,
                        !.ledger = addEvidence(@, "metadata", "app-signature", "critical")]
         ELSE [s EXCEPT !.findings = Append(@, Finding("warning", "app-signature")),
                        !.confidence = @ - 6,
                        !.ledger = addEvidence(@, "metadata", "app-signature", "warning")]
    ELSE s

\* lines 140-234 in program order
BinaryForensics(fmt, exif, nSoftware, nApps, recompression, suspicious, qualityInconsistent) ==
    LET s1 == ExifStep(InitialScan, fmt, exif)
        s2 == SoftwareStep(s1, nSoftware, nApps)
        s3 == RecompressionStep(s2, recompression)
        s4 == FormatStep(s3, fmt, suspicious, qualityInconsistent)
        s5 == StackedStep(s4, fmt, recompression)
    IN  AppStep(s5, nSoftware, nApps)

\* ------------------------------------------------- backend orchestrator
\* a value of one key of a backend's JSON answer: null (or absent, or not a
\* string) or a non-blank description
NullValue == "null"
TextValue == "text"
\* an empty or all-blank string
BlankValue == ""

\* variant: a null value counts as a description
IsReported_NullCounts(value) == value # ""

\* line 516: value && typeof value === 'string' && value.trim().length > 0
IsReported(value) == value # NullValue /\ value # ""

NoAnalysis == [k \in KeySet |-> NullValue]

\* an answer whose six values are empty strings
BlankAnalysis == [k \in KeySet |-> BlankValue]

\* what one backend call can end in
\*   reject      fetch rejects (network failure)
\*   bad-body    status ok, response.json() rejects
\*   not-ok      non-success status
\*   no-content  no choices[0].message.content
\*   no-json     content holds no {...}
\*   bad-json    JSON.parse of the matched text throws
\*   ok          an analysis object was parsed
FailureKinds == {"reject", "bad-body", "not-ok", "no-content", "no-json", "bad-json"}

ThrowingKinds == {"reject", "bad-body"}

Analyses ==
    {a \in [KeySet -> {NullValue, TextValue}] :
        Cardinality({k \in KeySet : a[k] # NullValue}) <= MaxReported}

Responses ==
    {[kind |-> f, analysis |-> NoAnalysis] : f \in FailureKinds}
    \cup {[kind |-> "ok", analysis |-> a] : a \in Analyses \cup {BlankAnalysis}}

\* variant: the models are collected in a list, not in a Set
RECURSIVE modelsSupporting_List(_, _)
modelsSupporting_List(analyses, key) ==
    IF analyses = << >> THEN << >>
    ELSE LET n     == Len(analyses)
             front == modelsSupporting_List(SubSeq(analyses, 1, n - 1), key)
             last  == analyses[n]
         IN  IF IsReported(last.analysis[key])
             THEN Append(front, last.model)
             ELSE front

\* lines 513-521: aggregations[key].models, a Set in insertion order
RECURSIVE modelsSupporting(_, _)
modelsSupporting(analyses, key) ==
    IF analyses = << >> THEN << >>
    ELSE LET n     == Len(analyses)
             front == modelsSupporting(SubSeq(analyses, 1, n - 1), key)
             last  == analyses[n]
         IN  IF IsReported(last.analysis[key])
                /\ \A i \in 1..Len(front) : front[i] # last.model
             THEN Append(front, last.model)
             ELSE front

\* lines 523-537: the merged AIVisualAnalysis; null is the empty mapping
Merge(analyses) ==
    LET present == {k \in KeySet : modelsSupporting(analyses, k) # << >>}
    IN  [k \in present |-> modelsSupporting(analyses, k)]

\* lines 491-537: null when no answer was parsed or nothing was reported
performAIVisualAnalysisResult(analyses) ==
    IF Len(analyses) = 0 THEN << >> ELSE Merge(analyses)

\* ------------------------------------------------ phase 2: AI findings
baseSeverity(key) ==
    IF key \in {"clonedRegions", "lightingInconsistencies", "pixelManipulation"}
    THEN "critical" ELSE "warning"

\* variant: a heavier deduction for corroborated pixel manipulation
penaltyMap_Heavier(key) ==
    IF key = "pixelManipulation"
    THEN [warning |-> 20, critical |-> 45]
    ELSE [warning |-> 12, critical |-> 30]

penaltyMap(key) ==
    CASE key = "clonedRegions"           -> [warning |-> 18, critical |-> 35]
      [] key = "lightingInconsistencies" -> [warning |-> 15, critical |-> 30]
      [] key = "pixelManipulation"       -> [warning |-> 20, critical |-> 40]
      [] key = "fontInconsistencies"     -> [warning |-> 12, critical |-> 18]
      [] key = "colorAnomalies"          -> [warning |-> 10, critical |-> 16]
      [] key = "artificialElements"      -> [warning |-> 6,  critical |-> 12]

\* variant: the support of the backends is ignored
aiSeverity_Base(key, supportedModels) == baseSeverity(key)

\* line 267
aiSeverity(key, supportedModels) ==
    IF supportedModels >= 2 THEN baseSeverity(key) ELSE "warning"

\* lines 265-300: one iteration of the loop over the merged categories
\* variant: the Finding of an AI category is never critical
AIStep_WarningFinding(s, key, supportedModels) ==
    LET base     == baseSeverity(key)
        severity == aiSeverity(key, supportedModels)
        penalty  == penaltyMap(key)[severity]
        s1       == [s EXCEPT !.findings = Append(@, Finding("warning", key)),
                              !.confidence = @ - penalty]
    IN  IF base = "critical" /\ severity = "critical"
        THEN [s1 EXCEPT !.editingDetected = TRUE,
                        !.ledger = addEvidence(@, "ai", key, "critical"),
                        !.highConfidenceAICritical =
                            IF supportedModels >= 2 THEN TRUE ELSE @]
        ELSE [s1 EXCEPT !.ledger = addEvidence(@, "ai", key, "warning")]

AIStep(s, key, supportedModels) ==
    LET base     == baseSeverity(key)
        severity == aiSeverity(key, supportedModels)
        penalty  == penaltyMap(key)[severity]
        type     == IF severity = "critical" /\ base = "critical"
                    THEN "critical" ELSE "warning"
        s1       == [s EXCEPT !.findings = Append(@, Finding(type, key)),
                              !.confidence = @ - penalty]
    IN  IF base = "critical" /\ severity = "critical"
        THEN [s1 EXCEPT !.editingDetected = TRUE,
                        !.ledger = addEvidence(@, "ai", key, "critical"),
                        !.highConfidenceAICritical =
                            IF supportedModels >= 2 THEN TRUE ELSE @]
        ELSE [s1 EXCEPT !.ledger = addEvidence(@, "ai", key, "warning")]

\* lines 242-302: the loop, in the order of the keys of the merged object
RECURSIVE AIPhase(_, _, _)
AIPhase(s, merged, i) ==
    IF i > Len(Keys) THEN s
    ELSE IF Keys[i] \in DOMAIN merged
         THEN AIPhase(AIStep(s, Keys[i], Len(merged[Keys[i]])), merged, i + 1)
         ELSE AIPhase(s, merged, i + 1)

\* ------------------------------------------------------- verdict engine
Max(a, b) == IF a >= b THEN a ELSE b
Min(a, b) == IF a <= b THEN a ELSE b

totalCriticalEvidence(L) == getEvidenceCount(L.evidence, "critical")
totalWarningEvidence(L)  == getEvidenceCount(L.evidence, "warning")
categoriesWithEvidence(L) == getCategoryCountAny(L.evidence)
categoriesWithCritical(L) == getCategoryCount(L.evidence, "critical")
metadataCategoryPresent(L) == "metadata" \in DOMAIN L.evidence

nonMetadataCategoriesWithEvidence(L) ==
    IF metadataCategoryPresent(L)
    THEN Max(0, categoriesWithEvidence(L) - 1)
    ELSE categoriesWithEvidence(L)

aiCriticalPresent(L) ==
    "ai" \in DOMAIN L.evidence /\ Cardinality(L.evidence["ai"].critical) > 0

multiCategorySupport(L) ==
    categoriesWithEvidence(L) >= 2 /\ nonMetadataCategoriesWithEvidence(L) >= 1

multiCriticalCategories(L) ==
    categoriesWithCritical(L) >= 2 /\ nonMetadataCategoriesWithEvidence(L) >= 1

aiRequiresSupport(L) ==
    aiCriticalPresent(L)
    /\ (categoriesWithEvidence(L) >= 2 \/ totalWarningEvidence(L) >= 1)

criticalSupported(L) ==
    \/ multiCriticalCategories(L)
    \/ (totalCriticalEvidence(L) >= 2 /\ multiCategorySupport(L))
    \/ (aiCriticalPresent(L) /\ aiRequiresSupport(L))
    \/ (totalCriticalEvidence(L) >= 1 /\ totalWarningEvidence(L) >= 2
        /\ multiCategorySupport(L))

warningCluster(L) ==
    /\ totalWarningEvidence(L) >= 3
    /\ multiCategorySupport(L)
    /\ L.riskScore >= 35
    /\ nonMetadataCategoriesWithEvidence(L) >= 1

\* variant: the risk gate is missing
strongSingleCategoryCritical_NoRisk(L) ==
    categoriesWithCritical(L) = 1 /\ totalCriticalEvidence(L) >= 2

strongSingleCategoryCritical(L) ==
    /\ categoriesWithCritical(L) = 1
    /\ totalCriticalEvidence(L) >= 2
    /\ L.riskScore >= 40

\* variant: a higher risk gate
riskAdjustedCritical_40(L) == criticalSupported(L) /\ L.riskScore >= 40

riskAdjustedCritical(L) == criticalSupported(L) /\ L.riskScore >= 30

\* variant: the high-confidence flag decides without the risk gate
decideEditingLikely_NoGate(L, highConfidence) ==
    \/ riskAdjustedCritical(L)
    \/ strongSingleCategoryCritical(L)
    \/ highConfidence
    \/ (warningCluster(L) /\ L.riskScore >= 50)

\* lines 338-342
decideEditingLikely(L, highConfidence) ==
    \/ riskAdjustedCritical(L)
    \/ strongSingleCategoryCritical(L)
    \/ (highConfidence /\ L.riskScore >= 30)
    \/ (warningCluster(L) /\ L.riskScore >= 50)

\* variant: the two thresholds are swapped
authenticityThreshold_Swapped(likely) == IF likely THEN 60 ELSE 72

authenticityThreshold(likely) == IF likely THEN 72 ELSE 60

\* variant: the lower clamp is missing
clampConfidence_NoFloor(c) == Min(100, c)

\* line 349
clampConfidence(c) == Max(0, Min(100, c))

warningOnly(L) == ~aiCriticalPresent(L) /\ totalCriticalEvidence(L) = 0

maxWarningPenalty == 35

\* variant: the warning-only cap is missing
finalConfidence_NoCap(c, likely, L) == clampConfidence(c)

\* lines 349-357
finalConfidence(c, likely, L) ==
    LET clamped == clampConfidence(c)
    IN  IF ~likely /\ warningOnly(L) /\ 100 - clamped > maxWarningPenalty
        THEN 100 - maxWarningPenalty
        ELSE clamped

\* variant: the comparison with the threshold is inverted
decideAuthentic_Inverted(likely, c) == ~likely /\ c <= authenticityThreshold(likely)

\* line 361
decideAuthentic(likely, c) == ~likely /\ c >= authenticityThreshold(likely)

\* variant: the provisional flag survives
alignEditingDetected_Keep(provisional, likely) == provisional \/ likely

\* line 365
alignEditingDetected(provisional, likely) == likely

\* variant: the synthetic finding is never added
withInfoFinding_Never(fs, authentic) == fs

\* lines 367-372
withInfoFinding(fs, authentic) ==
    IF authentic /\ Len(fs) = 0 THEN Append(fs, Finding("info", "clean")) ELSE fs

\* lines 240-384: the AnalysisResult analyzeImage returns for the state the
\* binary phase leaves and the merged answer of the backends
analyzeImageResult(scan, analysis) ==
    LET s         == AIPhase([findings |-> scan.findings,
                              confidence |-> scan.confidence,
                              ledger |-> scan.ledger,
                              editingDetected |-> scan.editingDetected,
                              highConfidenceAICritical |-> FALSE],
                             analysis, 1)
        likely    == decideEditingLikely(s.ledger, s.highConfidenceAICritical)
        c         == finalConfidence(s.confidence, likely, s.ledger)
        authentic == decideAuthentic(likely, c)
    IN  [authentic |-> authentic, confidence |-> c,
         findings |-> withInfoFinding(s.findings, authentic),
         metadata |-> [software |-> scan.editingSoftware,
                       editingDetected |-> alignEditingDetected(s.editingDetected, likely),
                       compressionAnomalies |-> scan.compressionAnomalies,
                       metadataInconsistencies |-> scan.metadataInconsistencies]]

\* variant: the catch block returns the flags as they stood
FailureResult_Flags ==
    [authentic |-> FALSE, confidence |-> 0,
     findings |-> << Finding("critical", "failure") >>,
     metadata |-> [software |-> 0, editingDetected |-> FALSE,
                   compressionAnomalies |-> FALSE,
                   metadataInconsistencies |-> FALSE]]

\* lines 387-399: the result of the catch block
FailureResult ==
    [authentic |-> FALSE, confidence |-> 0,
     findings |-> << Finding("critical", "failure") >>,
     metadata |-> [software |-> 0, editingDetected |-> FALSE,
                   compressionAnomalies |-> FALSE,
                   metadataInconsistencies |-> TRUE]]

NoResult ==
    [authentic |-> FALSE, confidence |-> 0, findings |-> << >>,
     metadata |-> [software |-> 0, editingDetected |-> FALSE,
                   compressionAnomalies |-> FALSE,
                   metadataInconsistencies |-> FALSE]]

\* ------------------------------------------------- byte-level detectors
\* An element of a buffer stands for the bytes of one symbol:
\*   FF, D8   the bytes 0xFF and 0xD8 (not printable)
\*   SP       a space (printable)
\*   Q60, Q95 the ASCII text quality=60 and quality=95 (printable)
\* Every buffer of the model is shorter than the header region (8192 and
\* 16384 bytes), holds no 0xE1 and none of the words the signature detectors
\* look for.
QualityTags == {"Q60", "Q95"}

Symbols == {"FF", "D8", "SP"} \cup QualityTags

\* line 566: byte >= 32 && byte <= 126
Printable(symbol) == symbol \in {"SP"} \cup QualityTags

\* the number of bytes a symbol stands for
ByteSize(symbol) == IF symbol \in QualityTags THEN 10 ELSE 1

RECURSIVE ByteLength(_)
ByteLength(run) ==
    IF run = << >> THEN 0 ELSE ByteSize(Head(run)) + ByteLength(Tail(run))

\* String.prototype.trim
RECURSIVE TrimLeft(_)
TrimLeft(run) ==
    IF run # << >> /\ Head(run) = "SP" THEN TrimLeft(Tail(run)) ELSE run

RECURSIVE TrimRight(_)
TrimRight(run) ==
    IF run # << >> /\ run[Len(run)] = "SP"
    THEN TrimRight(SubSeq(run, 1, Len(run) - 1)) ELSE run

Trim(run) == TrimRight(TrimLeft(run))

\* line 585: segment.replace(/\s+/g, ' ')
RECURSIVE CollapseSpaces(_)
CollapseSpaces(run) ==
    IF Len(run) < 2 THEN run
    ELSE IF run[1] = "SP" /\ run[2] = "SP" THEN CollapseSpaces(Tail(run))
         ELSE << run[1] >> \o CollapseSpaces(Tail(run))

\* lines 569-571 and 576-578: a run of at least 4 printable bytes is kept,
\* trimmed
PushRun(strings, current) ==
    IF ByteLength(current) >= 4 THEN Append(strings, Trim(current)) ELSE strings

\* lines 564-578: the loop over the first limit bytes
RECURSIVE ScanRuns(_, _, _, _, _)
ScanRuns(data, limit, i, current, strings) ==
    IF i > limit THEN PushRun(strings, current)
    ELSE IF Printable(data[i])
         THEN ScanRuns(data, limit, i + 1, Append(current, data[i]), strings)
         ELSE ScanRuns(data, limit, i + 1, << >>, PushRun(strings, current))

\* lines 558-581
extractMetadataStrings(data, maxLength) ==
    ScanRuns(data, Min(Len(data), maxLength), 1, << >>, << >>)

\* lines 583-587
extractHeaderTokens(data, maxLength) ==
    SelectSeq([i \in 1..Len(extractMetadataStrings(data, maxLength)) |->
                  CollapseSpaces(extractMetadataStrings(data, maxLength)[i])],
              LAMBDA segment : Len(segment) > 0)

\* line 689: parseInt(match[1], 10) of the digits of the tag
QualityOf(symbol) == IF symbol = "Q60" THEN 60 ELSE 95

\* lines 688-690: token.match(/\bquality[:=]?\s*(\d{1,3})/i) has no g flag
\* and gives the first tag of the token, or null (<< >>) without one
RECURSIVE FirstQuality(_)
FirstQuality(token) ==
    IF token = << >> THEN << >>
    ELSE IF Head(token) \in QualityTags THEN << QualityOf(Head(token)) >>
         ELSE FirstQuality(Tail(token))

\* lines 687-692: the values of the tokens that hold a tag
RECURSIVE qualityValues(_)
qualityValues(tokens) ==
    IF tokens = << >> THEN << >>
    ELSE FirstQuality(Head(tokens)) \o qualityValues(Tail(tokens))

\* lines 680-698
analyzeJPEG(data) ==
    LET values   == qualityValues(extractHeaderTokens(data, 16384))
        distinct == {values[i] : i \in 1..Len(values)}
    IN  [qualityInconsistent |-> Cardinality(distinct) > 1 /\ Len(values) > 1]

\* lines 647-651: the loop over i < data.length - 1
RECURSIVE jpegMarkerCount(_, _)
jpegMarkerCount(data, i) ==
    IF i > Len(data) - 1 THEN 0
    ELSE (IF data[i] = "FF" /\ data[i + 1] = "D8" THEN 1 ELSE 0)
         + jpegMarkerCount(data, i + 1)

\* variant: two markers are enough
detectRecompression_Two(data) == jpegMarkerCount(data, 1) > 1

\* lines 642-653
detectRecompression(data) == jpegMarkerCount(data, 1) > 2

\* lines 655-665; a byte past the end is undefined and equals nothing
detectImageFormat(data) ==
    IF Len(data) >= 4 /\ data[1] = "89" /\ data[2] = "50" /\ data[3] = "4E"
       /\ data[4] = "47"
    THEN "PNG"
    ELSE IF Len(data) >= 2 /\ data[1] = "FF" /\ data[2] = "D8"
         THEN "JPEG"
         ELSE "UNKNOWN"

\* --------------------------------------------------------- http handler
\* what the body of a request can be
\*   malformed    req.json() rejects
\*   no-image     JSON without an image field
\*   empty-image  JSON whose image field is falsy ("", null, 0, false)
\*   bad-image    a truthy image field that is not a base64 data URL
\*   image        a decodable base64 data URL
Bodies == {"malformed", "no-image", "empty-image", "bad-image", "image"}

Methods == {"OPTIONS", "POST"}

NoRequest == [method |-> "none", body |-> "none"]

NoResponse == [status |-> 0, body |-> "none"]

\* lines 40-42
PreflightResponse == [status |-> 200, body |-> "null"]

\* lines 56-59: JSON.stringify(result) with the default status
ResultResponse == [status |-> 200, body |-> "result"]

\* lines 60-69
\* variant: the error body goes out with the default status
ErrorResponse_DefaultStatus == [status |-> 200, body |-> "error"]

ErrorResponse == [status |-> 500, body |-> "error"]

\* ----------------------------------------------------------------- state
\* the upload component before a file is chosen (part_002 lines 13-15)
NoUpload == [selectedFile |-> FALSE, isAnalyzing |-> FALSE, requests |-> << >>]

VARIABLES
    pc,                      \* position in the handler / analyzeImage /
                             \* performAIVisualAnalysis
    request,                 \* the method and the body of the request
    response,                \* the Response the handler returns
    apiKey,                  \* LOVABLE_API_KEY is set
    configuredModels,        \* AI_MODELS after split/trim/filter
    format, hasExif,         \* detectImageFormat, checkExifPresence
    softwareSignatures,      \* number of names from detectEditingSoftware
    appSignatures,           \* number of names from detectAppSignatures
    recompressionDetected,   \* detectRecompression
    pngSuspicious,           \* analyzePNG(...).suspicious
    data,                    \* binaryData, where the bytes are modelled
    findings, confidence, editingSoftware, editingDetected,
    compressionAnomalies, metadataInconsistencies, jpegQualityInconsistent,
    evidenceByCategory, riskScore, highConfidenceAICritical,
    models, modelIdx,        \* the loop over the models
    requested,               \* the models a request was sent to, in order
    responses,               \* what each requested backend answered, in order
    modelAnalyses,           \* the parsed answers
    aiAnalysis,              \* the merged analysis, << >> for null
    editingLikely,
    result,                  \* the AnalysisResult returned
    calls,                   \* the addEvidence calls made, where they are
                             \* followed one by one
    ui                       \* the state of the upload component

config == <<apiKey, configuredModels>>
inputs == <<format, hasExif, softwareSignatures, appSignatures,
            recompressionDetected, pngSuspicious, data>>
locals == <<findings, confidence, editingSoftware, editingDetected,
            compressionAnomalies, metadataInconsistencies,
            jpegQualityInconsistent, evidenceByCategory, riskScore,
            highConfidenceAICritical>>
backend == <<models, modelIdx, requested, responses, modelAnalyses, aiAnalysis>>

other == <<calls, ui>>

vars == <<pc, request, response, config, inputs, locals, backend,
          editingLikely, result, other>>

Init ==
    /\ pc = "request"
    /\ request = NoRequest
    /\ response = NoResponse
    /\ apiKey \in BOOLEAN
    /\ configuredModels \in ModelConfigs
    /\ format = "UNKNOWN" /\ hasExif = FALSE
    /\ softwareSignatures = 0 /\ appSignatures = 0
    /\ recompressionDetected = FALSE /\ pngSuspicious = FALSE
    /\ data = << >>
    /\ findings = << >> /\ confidence = 100
    /\ editingSoftware = 0 /\ editingDetected = FALSE
    /\ compressionAnomalies = FALSE /\ metadataInconsistencies = FALSE
    /\ jpegQualityInconsistent = FALSE
    /\ evidenceByCategory = << >> /\ riskScore = 0
    /\ highConfidenceAICritical = FALSE
    /\ models = << >> /\ modelIdx = 0
    /\ requested = << >> /\ responses = << >>
    /\ modelAnalyses = << >> /\ aiAnalysis = << >>
    /\ editingLikely = FALSE
    /\ result = NoResult
    /\ calls = << >>
    /\ ui = NoUpload

\* lines 39-54: the handler answers a preflight, a body that is not JSON and
\* a body without image by itself, and calls analyzeImage otherwise
Serve ==
    /\ pc = "request"
    /\ \E method \in Methods, body \in Bodies :
         /\ method = "OPTIONS" => body = "no-image"
         /\ request' = [method |-> method, body |-> body]
         /\ IF method = "OPTIONS"
            THEN response' = PreflightResponse /\ pc' = "answered"
            ELSE IF body \in {"malformed", "no-image", "empty-image"}
                 THEN response' = ErrorResponse /\ pc' = "answered"
                 ELSE response' = response /\ pc' = "start"
    /\ UNCHANGED <<config, inputs, locals, backend, editingLikely, result,
                   other>>

\* lines 83-84: the payload is split and decoded; atob throws on a payload
\* that is not a base64 data URL, the catch block of lines 385-400 returns
\* and the handler serializes what it returns (lines 56-59)
Decode ==
    /\ pc = "start"
    /\ IF request.body = "image"
       THEN pc' = "scan" /\ result' = result /\ response' = response
       ELSE pc' = "done" /\ result' = FailureResult /\ response' = ResultResponse
    /\ UNCHANGED <<request, config, inputs, locals, backend, editingLikely,
                   other>>

\* lines 87-234: format detection and the binary forensic phase
ScanBinary ==
    /\ pc = "scan"
    /\ \E fmt \in Formats, exif \in BOOLEAN,
          nSoftware \in 0..MaxSignatures, nApps \in 0..MaxSignatures,
          recompression \in BOOLEAN, flag \in BOOLEAN :
         \E s \in {BinaryForensics(fmt, exif, nSoftware, nApps, recompression,
                                    fmt = "PNG" /\ flag, fmt = "JPEG" /\ flag)} :
             /\ nSoftware + nApps <= MaxSignatures
             \* the EXIF marker is read for a JPEG only, the format-specific
             \* detectors run for a PNG and a JPEG only
             /\ fmt # "JPEG" => ~exif
             /\ fmt = "UNKNOWN" => ~flag
             /\ format' = fmt
             /\ hasExif' = exif
             /\ softwareSignatures' = nSoftware
             /\ appSignatures' = nApps
             /\ recompressionDetected' = recompression
             /\ pngSuspicious' = (fmt = "PNG" /\ flag)
             /\ findings' = s.findings
             /\ confidence' = s.confidence
             /\ editingSoftware' = s.editingSoftware
             /\ editingDetected' = s.editingDetected
             /\ compressionAnomalies' = s.compressionAnomalies
             /\ metadataInconsistencies' = s.metadataInconsistencies
             /\ jpegQualityInconsistent' = s.jpegQualityInconsistent
             /\ evidenceByCategory' = s.ledger.evidence
             /\ riskScore' = s.ledger.riskScore
    /\ pc' = "ai"
    /\ UNCHANGED <<request, response, config, data, highConfidenceAICritical,
                   backend, editingLikely, result,
                   other>>

\* lines 405-438: without the credential no backend is queried
StartAI ==
    /\ pc = "ai"
    /\ IF apiKey
       THEN /\ models' = ConfiguredOrDefault(configuredModels)
            /\ modelIdx' = 1
            /\ pc' = "fetch"
       ELSE /\ UNCHANGED <<models, modelIdx>>
            /\ pc' = "phase2"
    /\ UNCHANGED <<request, response, config, inputs, locals, requested,
                   responses, modelAnalyses, aiAnalysis, editingLikely, result,
                   other>>

\* line 441: the request to models[modelIdx] is sent and awaited
SendRequest ==
    /\ pc = "fetch"
    /\ modelIdx <= Len(models)
    /\ requested' = Append(requested, models[modelIdx])
    /\ pc' = "await"
    /\ UNCHANGED <<request, response, config, inputs, locals, models, modelIdx,
                   responses, modelAnalyses, aiAnalysis, editingLikely, result,
                   other>>

\* lines 441-541: the awaited call ends.  A rejection leaves the loop through
\* the catch block of lines 538-541; the other failures continue the loop;
\* after the last model the answers are merged per category and returned
ReceiveResponse ==
    /\ pc = "await"
    /\ \E r \in Responses :
         LET parsed == IF r.kind = "ok"
                       THEN Append(modelAnalyses, [model |-> models[modelIdx],
                                                   analysis |-> r.analysis])
                       ELSE modelAnalyses
         IN  /\ responses' = Append(responses, [model |-> models[modelIdx],
                                                kind |-> r.kind,
                                                analysis |-> r.analysis])
             /\ IF r.kind \in ThrowingKinds
                THEN /\ aiAnalysis' = << >>
                     /\ pc' = "phase2"
                     /\ UNCHANGED <<modelIdx, modelAnalyses>>
                ELSE /\ modelAnalyses' = parsed
                     /\ modelIdx' = modelIdx + 1
                     /\ IF modelIdx = Len(models)
                        THEN /\ aiAnalysis' = performAIVisualAnalysisResult(parsed)
                             /\ pc' = "phase2"
                        ELSE /\ UNCHANGED aiAnalysis
                             /\ pc' = "fetch"
    /\ UNCHANGED <<request, response, config, inputs, locals, models, requested,
                   editingLikely, result,
                   other>>

\* lines 240-384: one Signal and one Finding per merged category, then the
\* decision and the AnalysisResult, which the handler serializes (lines 56-59)
Verdict ==
    /\ pc = "phase2"
    /\ \E s \in {AIPhase([findings |-> findings, confidence |-> confidence,
                          ledger |-> [evidence |-> evidenceByCategory,
                                      riskScore |-> riskScore],
                          editingDetected |-> editingDetected,
                          highConfidenceAICritical |-> FALSE],
                         aiAnalysis, 1)} :
       \E likely \in {decideEditingLikely(s.ledger, s.highConfidenceAICritical)} :
       \E c \in {finalConfidence(s.confidence, likely, s.ledger)} :
       \E authentic \in {decideAuthentic(likely, c)} :
         LET detected == alignEditingDetected(s.editingDetected, likely)
             fs       == withInfoFinding(s.findings, authentic)
         IN  /\ evidenceByCategory' = s.ledger.evidence
             /\ riskScore' = s.ledger.riskScore
             /\ highConfidenceAICritical' = s.highConfidenceAICritical
             /\ editingLikely' = likely
             /\ confidence' = c
             /\ editingDetected' = detected
             /\ findings' = fs
             /\ result' = [authentic |-> authentic, confidence |-> c,
                           findings |-> fs,
                           metadata |-> [software |-> editingSoftware,
                                         editingDetected |-> detected,
                                         compressionAnomalies |-> compressionAnomalies,
                                         metadataInconsistencies |-> metadataInconsistencies]]
    /\ response' = ResultResponse
    /\ pc' = "done"
    /\ UNCHANGED <<request, config, inputs, editingSoftware, compressionAnomalies,
                   metadataInconsistencies, jpegQualityInconsistent, backend,
                   other>>

Next ==
    \/ Serve
    \/ Decode
    \/ ScanBinary
    \/ StartAI
    \/ SendRequest
    \/ ReceiveResponse
    \/ Verdict

Spec == Init /\ [][Next]_vars

\* ------------------------------------------- the scanner on actual bytes
\* the buffers of at most MaxBytes symbols
Buffers == UNION {[1..n -> Symbols] : n \in 0..MaxBytes}

\* a request with a decodable image, without credential; the bytes decoded
\* are any buffer
ByteInit ==
    /\ pc = "start"
    /\ request = [method |-> "POST", body |-> "image"]
    /\ response = NoResponse
    /\ apiKey = FALSE
    /\ configuredModels = << >>
    /\ format = "UNKNOWN" /\ hasExif = FALSE
    /\ softwareSignatures = 0 /\ appSignatures = 0
    /\ recompressionDetected = FALSE /\ pngSuspicious = FALSE
    /\ data \in Buffers
    /\ findings = << >> /\ confidence = 100
    /\ editingSoftware = 0 /\ editingDetected = FALSE
    /\ compressionAnomalies = FALSE /\ metadataInconsistencies = FALSE
    /\ jpegQualityInconsistent = FALSE
    /\ evidenceByCategory = << >> /\ riskScore = 0
    /\ highConfidenceAICritical = FALSE
    /\ models = << >> /\ modelIdx = 0
    /\ requested = << >> /\ responses = << >>
    /\ modelAnalyses = << >> /\ aiAnalysis = << >>
    /\ editingLikely = FALSE
    /\ result = NoResult
    /\ calls = << >>
    /\ ui = NoUpload

\* lines 87-234 with the detectors of lines 642-698 run on the bytes; no
\* buffer of the model holds an Exif marker or the name of a tool
ScanBytes ==
    /\ pc = "scan"
    /\ \E fmt \in {detectImageFormat(data)} :
       \E recompression \in {detectRecompression(data)} :
       \E quality \in {fmt = "JPEG" /\ analyzeJPEG(data).qualityInconsistent} :
       \E s \in {BinaryForensics(fmt, FALSE, 0, 0, recompression, FALSE, quality)} :
             /\ format' = fmt
             /\ recompressionDetected' = recompression
             /\ findings' = s.findings
             /\ confidence' = s.confidence
             /\ editingSoftware' = s.editingSoftware
             /\ editingDetected' = s.editingDetected
             /\ compressionAnomalies' = s.compressionAnomalies
             /\ metadataInconsistencies' = s.metadataInconsistencies
             /\ jpegQualityInconsistent' = s.jpegQualityInconsistent
             /\ evidenceByCategory' = s.ledger.evidence
             /\ riskScore' = s.ledger.riskScore
    /\ pc' = "ai"
    /\ UNCHANGED <<request, response, config, hasExif, softwareSignatures,
                   appSignatures, pngSuspicious, data, highConfidenceAICritical,
                   backend, editingLikely, result,
                   other>>

ByteNext ==
    \/ Decode
    \/ ScanBytes
    \/ StartAI
    \/ Verdict

ByteSpec == ByteInit /\ [][ByteNext]_vars

\* the handler's own steps run whenever they can; the end of an awaited
\* call (line 441) is the backend's step and nothing in the code forces it:
\* the fetch carries no AbortSignal and no timer races it
FairSpec ==
    /\ Init /\ [][Next]_vars
    /\ WF_vars(Serve) /\ WF_vars(Decode) /\ WF_vars(ScanBinary)
    /\ WF_vars(StartAI) /\ WF_vars(SendRequest) /\ WF_vars(Verdict)

\* ------------------------------------------------- the ledger by itself
\* the categories addEvidence is called with, and one it has no weights for
LedgerCategories == {"metadata", "compression", "format", "ai", "watermark"}

LedgerSignals == {"editing-software", "quality"}

\* no analysis is running
NoAnalysisRunning ==
    /\ request = NoRequest
    /\ response = NoResponse
    /\ apiKey = FALSE
    /\ configuredModels = << >>
    /\ format = "UNKNOWN" /\ hasExif = FALSE
    /\ softwareSignatures = 0 /\ appSignatures = 0
    /\ recompressionDetected = FALSE /\ pngSuspicious = FALSE
    /\ data = << >>
    /\ findings = << >> /\ confidence = 100
    /\ editingSoftware = 0 /\ editingDetected = FALSE
    /\ compressionAnomalies = FALSE /\ metadataInconsistencies = FALSE
    /\ jpegQualityInconsistent = FALSE
    /\ evidenceByCategory = << >> /\ riskScore = 0
    /\ highConfidenceAICritical = FALSE
    /\ models = << >> /\ modelIdx = 0
    /\ requested = << >> /\ responses = << >>
    /\ modelAnalyses = << >> /\ aiAnalysis = << >>
    /\ editingLikely = FALSE
    /\ result = NoResult

\* lines 90-95: the empty Map and riskScore = 0
LedgerInit ==
    /\ pc = "ledger"
    /\ NoAnalysisRunning
    /\ calls = << >>
    /\ ui = NoUpload

\* lines 105-112: one call of addEvidence
AddEvidence ==
    /\ pc = "ledger"
    /\ Len(calls) < MaxCalls
    /\ \E category \in LedgerCategories, signal \in LedgerSignals,
          severity \in {"warning", "critical"} :
         \E L \in {addEvidence([evidence |-> evidenceByCategory,
                                riskScore |-> riskScore],
                               category, signal, severity)} :
             /\ evidenceByCategory' = L.evidence
             /\ riskScore' = L.riskScore
             /\ calls' = Append(calls, [category |-> category, signal |-> signal,
                                        severity |-> severity])
    /\ UNCHANGED <<pc, request, response, config, inputs, findings, confidence,
                   editingSoftware, editingDetected, compressionAnomalies,
                   metadataInconsistencies, jpegQualityInconsistent,
                   highConfidenceAICritical, backend, editingLikely, result, ui>>

LedgerNext == AddEvidence

LedgerSpec == LedgerInit /\ [][LedgerNext]_vars

\* ------------------------------------- analyses of growing evidence
\* the AnalysisResult of lines 136-384 for the outcomes of the detectors
\* and the merged answer of the backends
resultFor(fmt, exif, nSoftware, nApps, recompression, suspicious, qualityInconsistent, analysis) ==
    analyzeImageResult(BinaryForensics(fmt, exif, nSoftware, nApps, recompression,
                                       suspicious, qualityInconsistent),
                       analysis)

\* the merged answer with one more backend supporting the category
oneMoreSupporter(analysis, key) ==
    [k \in (DOMAIN analysis) \cup {key} |->
        IF k # key THEN analysis[k]
        ELSE IF key \in DOMAIN analysis
             THEN Append(analysis[key], DefaultModels[Len(analysis[key]) + 1])
             ELSE << DefaultModels[1] >>]

\* an analysis of a buffer of any format on which no detector fired
CompareInit ==
    /\ pc = "compare"
    /\ request = NoRequest
    /\ response = NoResponse
    /\ apiKey = TRUE
    /\ configuredModels = << >>
    /\ format \in Formats /\ hasExif = (format = "JPEG")
    /\ softwareSignatures = 0 /\ appSignatures = 0
    /\ recompressionDetected = FALSE /\ pngSuspicious = FALSE
    /\ data = << >>
    /\ findings = << >> /\ confidence = 100
    /\ editingSoftware = 0 /\ editingDetected = FALSE
    /\ compressionAnomalies = FALSE /\ metadataInconsistencies = FALSE
    /\ jpegQualityInconsistent = FALSE
    /\ evidenceByCategory = << >> /\ riskScore = 0
    /\ highConfidenceAICritical = FALSE
    /\ models = DefaultModels /\ modelIdx = 0
    /\ requested = << >> /\ responses = << >>
    /\ modelAnalyses = << >> /\ aiAnalysis = << >>
    /\ editingLikely = FALSE
    /\ result = resultFor(format, hasExif, 0, 0, FALSE, FALSE, FALSE, << >>)
    /\ calls = << >>
    /\ ui = NoUpload

\* the next analysis is of a buffer of the same format on which one
\* detector gives a stronger outcome and the others the same
Strengthen ==
    /\ pc = "compare"
    /\ \E which \in {"exif", "software", "app", "recompression", "png",
                     "quality"} \cup KeySet :
         /\ which = "exif" => format = "JPEG" /\ hasExif
         /\ which \in {"software", "app"} =>
                softwareSignatures + appSignatures < MaxSignatures
         /\ which = "recompression" => ~recompressionDetected
         /\ which = "png" => format = "PNG" /\ ~pngSuspicious
         /\ which = "quality" => format = "JPEG" /\ ~jpegQualityInconsistent
         /\ which \in KeySet =>
                (which \in DOMAIN aiAnalysis => Len(aiAnalysis[which]) < Len(models))
         /\ hasExif' = (hasExif /\ which # "exif")
         /\ softwareSignatures' = softwareSignatures + (IF which = "software" THEN 1 ELSE 0)
         /\ appSignatures' = appSignatures + (IF which = "app" THEN 1 ELSE 0)
         /\ recompressionDetected' = (recompressionDetected \/ which = "recompression")
         /\ pngSuspicious' = (pngSuspicious \/ which = "png")
         /\ jpegQualityInconsistent' = (jpegQualityInconsistent \/ which = "quality")
         /\ aiAnalysis' = IF which \in KeySet
                          THEN oneMoreSupporter(aiAnalysis, which) ELSE aiAnalysis
    /\ result' = resultFor(format, hasExif', softwareSignatures', appSignatures',
                           recompressionDetected', pngSuspicious',
                           jpegQualityInconsistent', aiAnalysis')
    /\ UNCHANGED <<pc, request, response, config, format, data, findings,
                   confidence, editingSoftware, editingDetected,
                   compressionAnomalies, metadataInconsistencies,
                   evidenceByCategory, riskScore, highConfidenceAICritical,
                   models, modelIdx, requested, responses, modelAnalyses,
                   editingLikely, other>>

CompareNext == Strengthen

CompareSpec == CompareInit /\ [][CompareNext]_vars

\* ------------------------------------------------ the upload component
\* part_002.  ui.requests holds one entry per run of handleAnalyze:
\*   reading    readAsDataURL was called, onload has not run
\*   sent       onload called supabase.functions.invoke, no answer yet
\*   completed  the answer came without error
\*   failed     the answer came with an error, or the rejection
UploadInit ==
    /\ pc = "upload"
    /\ NoAnalysisRunning
    /\ calls = << >>
    /\ ui = NoUpload

\* part_002 lines 39-50: a file that is not an image is refused
HandleFileSelect ==
    /\ pc = "upload"
    /\ \E isImage \in BOOLEAN :
         ui' = IF isImage THEN [ui EXCEPT !.selectedFile = TRUE] ELSE ui
    /\ UNCHANGED <<pc, request, response, config, inputs, locals, backend,
                   editingLikely, result, calls>>

\* part_002 lines 52-90 and 148-152: a click on the button, which is
\* rendered with a file selected and is disabled while isAnalyzing.  The
\* handler holds no await: setIsAnalyzing(true), readAsDataURL, which
\* returns at once, and the finally block with setIsAnalyzing(false) run in
\* one go
HandleAnalyze ==
    /\ pc = "upload"
    /\ ui.selectedFile /\ ~ui.isAnalyzing
    /\ Len(ui.requests) < MaxClicks
    /\ LET started  == [ui EXCEPT !.isAnalyzing = TRUE]
           reading  == [started EXCEPT !.requests = Append(@, "reading")]
           finished == [reading EXCEPT !.isAnalyzing = FALSE]
       IN  ui' = finished
    /\ UNCHANGED <<pc, request, response, config, inputs, locals, backend,
                   editingLikely, result, calls>>

\* part_002 lines 61-69: onload runs and the request is sent
ReaderLoaded ==
    /\ pc = "upload"
    /\ \E i \in 1..Len(ui.requests) :
         /\ ui.requests[i] = "reading"
         /\ ui' = [ui EXCEPT !.requests[i] = "sent"]
    /\ UNCHANGED <<pc, request, response, config, inputs, locals, backend,
                   editingLikely, result, calls>>

\* part_002 lines 64-77: the request completes or fails; nothing here
\* touches isAnalyzing
RequestSettled ==
    /\ pc = "upload"
    /\ \E i \in 1..Len(ui.requests), outcome \in {"completed", "failed"} :
         /\ ui.requests[i] = "sent"
         /\ ui' = [ui EXCEPT !.requests[i] = outcome]
    /\ UNCHANGED <<pc, request, response, config, inputs, locals, backend,
                   editingLikely, result, calls>>

UploadNext ==
    \/ HandleFileSelect
    \/ HandleAnalyze
    \/ ReaderLoaded
    \/ RequestSettled

UploadSpec == UploadInit /\ [][UploadNext]_vars

TypeOK ==
    /\ pc \in {"request", "answered", "start", "scan", "ai", "fetch", "await",
               "phase2", "done", "ledger", "compare", "upload"}
    /\ confidence \in -400..100
    /\ riskScore \in 0..300
    /\ Len(requested) <= 2 /\ Len(responses) <= Len(requested)

\* ------------------------------------------------------------ properties
Returned     == pc = "done"
FailurePath  == Returned /\ result = FailureResult
NormalReturn == Returned /\ result # FailureResult

Ledger == [evidence |-> evidenceByCategory, riskScore |-> riskScore]

EntryOf(category) ==
    IF category \in DOMAIN evidenceByCategory
    THEN evidenceByCategory[category] ELSE EmptyEntry

FindingTypes(detector) ==
    {findings[i].type : i \in {j \in 1..Len(findings) : findings[j].detector = detector}}

\* the distinct backends whose answer was parsed and names the category
Reporters(key) ==
    {responses[i].model : i \in {j \in 1..Len(responses) :
        responses[j].kind = "ok" /\ IsReported(responses[j].analysis[key])}}

\* C1: every AnalysisResult returned, on the normal path and on the failure
\* path, has a confidence in 0..100.
C1_ConfidenceInRange ==
    Returned => result.confidence \in 0..100

\* a normal-path result whose accumulated deductions were clamped at 0
C1_Witness ==
    NormalReturn /\ result.confidence = 0 /\ Len(result.findings) >= 5

\* C2: when both configured backends report a non-empty pixelManipulation the
\* result has metadata.editingDetected = true.
C2_BothReportPixelManipulation ==
    (NormalReturn /\ Cardinality(Reporters("pixelManipulation")) = 2)
        => result.metadata.editingDetected = TRUE

\* C3: a failed backend call does not abort or discard the others: every
\* configured backend is queried and every backend that answered is part of
\* the merged findings.
C3_FailureIsIndependent ==
    (pc \in {"phase2", "done"}
     /\ \E i \in 1..Len(responses) : responses[i].kind # "ok")
        => /\ Len(requested) = Len(models)
           /\ \A k \in KeySet : \A m \in Reporters(k) :
                /\ k \in DOMAIN aiAnalysis
                /\ \E j \in 1..Len(aiAnalysis[k]) : aiAnalysis[k][j] = m

\* the seven rules of the reference policy, as the specification lists them
SevenRules(L, highConfidence) ==
    LET nonMetadata == categoriesWithEvidence(L)
                       - (IF "metadata" \in DOMAIN L.evidence THEN 1 ELSE 0)
        multi       == categoriesWithEvidence(L) >= 2 /\ nonMetadata >= 1
        aiCritical  == "ai" \in DOMAIN L.evidence /\ L.evidence["ai"].critical # {}
    IN  \/ (categoriesWithCritical(L) >= 2 /\ nonMetadata >= 1)
        \/ (totalCriticalEvidence(L) >= 2 /\ multi)
        \/ (aiCritical /\ (categoriesWithEvidence(L) >= 2
                           \/ totalWarningEvidence(L) >= 1))
        \/ (totalCriticalEvidence(L) >= 1 /\ totalWarningEvidence(L) >= 2 /\ multi)
        \/ (\E c \in DOMAIN L.evidence :
              /\ \A d \in DOMAIN L.evidence : L.evidence[d].critical # {} <=> d = c
              /\ Cardinality(L.evidence[c].critical) >= 2
              /\ L.riskScore >= 40)
        \/ (highConfidence /\ L.riskScore >= 30)
        \/ (totalWarningEvidence(L) >= 3 /\ multi /\ L.riskScore >= 50
            /\ nonMetadata >= 1)

\* C4: editingLikely is true exactly when one of the seven rules of the
\* reference policy holds on the completed ledger.
C4_EditingLikelyIsSevenRules ==
    NormalReturn => (editingLikely <=> SevenRules(Ledger, highConfidenceAICritical))

\* a result condemned by corroborated critical evidence with a low risk score
C4_Witness ==
    NormalReturn /\ editingLikely /\ riskScore < 40 /\ criticalSupported(Ledger)

\* C5: on the normal path authentic is true exactly when editingLikely is
\* false and the final confidence reaches the threshold, 72 if editingLikely
\* and 60 otherwise.
C5_AuthenticRule ==
    NormalReturn =>
        (result.authentic <=>
            (~editingLikely
             /\ result.confidence >= (IF editingLikely THEN 72 ELSE 60)))

\* an authentic result whose confidence lies between the two thresholds
C5_Witness ==
    NormalReturn /\ result.authentic /\ result.confidence \in 60..71

\* C6: on the normal path metadata.editingDetected equals editingLikely, so
\* no result is authentic and editingDetected at once.
C6_EditingDetectedIsEditingLikely ==
    NormalReturn =>
        /\ result.metadata.editingDetected = editingLikely
        /\ ~(result.authentic /\ result.metadata.editingDetected)

\* a detector set the flag during the scan and the result does not carry it
C6_Witness ==
    NormalReturn /\ softwareSignatures + appSignatures > 1
    /\ ~result.metadata.editingDetected

\* C7: when all the evidence is metadata evidence editingLikely is false.
C7_MetadataAloneNeverCondemns ==
    (NormalReturn
     /\ ~recompressionDetected /\ ~pngSuspicious /\ ~jpegQualityInconsistent
     /\ DOMAIN aiAnalysis = {})
        => ~editingLikely

\* both metadata detectors fired at critical severity on a JPEG without EXIF
C7_Witness ==
    NormalReturn /\ DOMAIN evidenceByCategory = {"metadata"}
    /\ Cardinality(evidenceByCategory["metadata"].critical) = 2
    /\ format = "JPEG" /\ ~hasExif /\ ~editingLikely

\* C8 as claimed: two or more editing-software names yield a critical
\* metadata Signal and a result with metadata.editingDetected = true.
C8_Claimed ==
    (NormalReturn /\ softwareSignatures >= 2)
        => /\ "editing-software" \in EntryOf("metadata").critical
           /\ result.metadata.editingDetected = TRUE

\* C8 as amended: two or more editing-software names yield a critical
\* metadata Signal and set the provisional flag; the result has
\* metadata.editingDetected = true only if a category other than metadata
\* holds evidence as well.
C8_StrongMetadataSignal ==
    softwareSignatures >= 2 =>
        /\ "editing-software" \in EntryOf("metadata").critical
        /\ pc \in {"ai", "fetch", "await", "phase2"} => editingDetected
        /\ (NormalReturn /\ result.metadata.editingDetected)
              => DOMAIN evidenceByCategory \ {"metadata"} # {}

\* two software names and corroboration from another category
C8_Witness ==
    NormalReturn /\ softwareSignatures >= 2 /\ result.metadata.editingDetected

\* C9: a merged category supported by exactly one backend gives a warning
\* Signal and a warning Finding whatever its base severity; a critical ai
\* Signal belongs to a critical-by-nature category that at least two
\* distinct backends reported.
C9_SingleBackendDowngrade ==
    NormalReturn =>
        /\ \A k \in DOMAIN aiAnalysis :
              Len(aiAnalysis[k]) = 1 =>
                 /\ k \in EntryOf("ai").warning
                 /\ k \notin EntryOf("ai").critical
                 /\ FindingTypes(k) = {"warning"}
        /\ \A k \in EntryOf("ai").critical :
              /\ baseSeverity(k) = "critical"
              /\ Cardinality(Reporters(k)) >= 2

\* a critical-by-nature category reported by one backend only
C9_Witness ==
    /\ pc = "done"
    /\ "clonedRegions" \in DOMAIN aiAnalysis
    /\ Cardinality(Reporters("clonedRegions")) = 1
    /\ "clonedRegions" \in EntryOf("ai").warning

\* C10: when editingLikely is false and the ledger holds no critical
\* evidence the final confidence is at least 65 and the result is authentic.
C10_WarningFloor ==
    (NormalReturn /\ ~editingLikely /\ totalCriticalEvidence(Ledger) = 0)
        => result.confidence >= 65 /\ result.authentic

\* warnings worth more than 35 points were capped
C10_Witness ==
    /\ NormalReturn /\ ~editingLikely /\ totalCriticalEvidence(Ledger) = 0
    /\ FindingTypes("pixelManipulation") = {"warning"}
    /\ FindingTypes("clonedRegions") = {"warning"}
    /\ result.confidence = 65

C12_Claimed ==
    (NormalReturn /\ editingLikely) => Cardinality(DOMAIN evidenceByCategory) >= 2

\* C12 as amended: editingLikely is true only when more than one category
\* holds evidence, or when the one category with evidence is compression or
\* ai and holds critical evidence, at least two identifiers and a risk score
\* of at least 30.
C12_Corroboration ==
    (NormalReturn /\ editingLikely) =>
        \/ /\ Cardinality(DOMAIN evidenceByCategory) >= 2
           /\ DOMAIN evidenceByCategory \ {"metadata"} # {}
        \/ \E c \in {"compression", "ai"} :
              /\ DOMAIN evidenceByCategory = {c}
              /\ evidenceByCategory[c].critical # {}
              /\ Cardinality(evidenceByCategory[c].critical)
                   + Cardinality(evidenceByCategory[c].warning) >= 2
              /\ riskScore >= 30

\* the compression category alone condemns
C12_Witness ==
    NormalReturn /\ editingLikely /\ DOMAIN evidenceByCategory = {"compression"}

\* C13: a buffer with no signature, no recompression, no format-specific
\* flag, EXIF present if it is a JPEG, and no AI evidence is authentic with a
\* confidence of at least 60 and exactly one Finding, of severity info.
C13_CleanBuffer ==
    (NormalReturn
     /\ softwareSignatures = 0 /\ appSignatures = 0
     /\ ~recompressionDetected /\ ~pngSuspicious /\ ~jpegQualityInconsistent
     /\ (format = "JPEG" => hasExif)
     /\ DOMAIN aiAnalysis = {})
        => /\ result.authentic
           /\ result.confidence >= 60
           /\ Len(result.findings) = 1
           /\ result.findings[1].type = "info"

\* a clean JPEG on which both backends answered and reported nothing
C13_Witness ==
    /\ NormalReturn /\ format = "JPEG" /\ hasExif
    /\ Len(responses) = 2
    /\ \A i \in 1..2 : responses[i].kind = "ok"
    /\ Len(result.findings) = 1 /\ result.findings[1].type = "info"
    /\ result.confidence = 100

\* the result of the binary phase alone on the bytes of this run
ScannerOnlyResult ==
    analyzeImageResult(BinaryForensics(format, hasExif, softwareSignatures,
                                       appSignatures, recompressionDetected,
                                       pngSuspicious, jpegQualityInconsistent),
                       << >>)

\* no backend contributed: the credential is missing, or every call made
\* failed or came back with every category null
NoBackendEvidence ==
    \/ ~apiKey
    \/ \A i \in 1..Len(responses) :
          \/ responses[i].kind \in FailureKinds
          \/ \A k \in KeySet : responses[i].analysis[k] \in {NullValue, BlankValue}

\* C14: when every backend fails, or the credential is missing, or the
\* backends report nothing, the analysis returns the result of a
\* scanner-only run on the same bytes.
C14_DegradesToScannerOnly ==
    (NormalReturn /\ NoBackendEvidence) => result = ScannerOnlyResult

\* both backends were called, neither contributed, and the scanner's
\* findings are returned
C14_Witness ==
    /\ NormalReturn /\ apiKey /\ Len(responses) = 2
    /\ responses[1].kind = "not-ok" /\ responses[2].kind = "ok"
    /\ softwareSignatures = 1 /\ recompressionDetected
    /\ result = ScannerOnlyResult
    /\ Len(result.findings) >= 2

\* C15: the requests go out in parallel: while the answer of one backend is
\* awaited, the request to every configured backend has been sent.
C15_RequestsInParallel ==
    pc = "await" => Len(requested) = Len(models)

\* C16: every request is eventually answered, also when a backend never
\* responds.
C16_EventuallyReturns ==
    <>(pc \in {"done", "answered"})

\* C17: a payload that cannot be decoded gives the synthetic result: not
\* authentic, confidence 0, exactly one critical Finding,
\* metadataInconsistencies set, the other flags clear, and nothing of the
\* scanner in it.
C17_DecodeFailureResult ==
    (Returned /\ request.body = "bad-image") =>
        /\ result.authentic = FALSE
        /\ result.confidence = 0
        /\ Len(result.findings) = 1
        /\ result.findings[1] = Finding("critical", "failure")
        /\ result.metadata.metadataInconsistencies = TRUE
        /\ result.metadata.editingDetected = FALSE
        /\ result.metadata.compressionAnomalies = FALSE
        /\ result.metadata.software = 0
        /\ requested = << >>

C17_Witness ==
    /\ Returned /\ request.body = "bad-image"
    /\ result.confidence = 0 /\ Len(result.findings) = 1

\* analyzeImage was not called: its locals are as declared and no backend
\* was asked
NothingRan ==
    /\ result = NoResult /\ findings = << >> /\ confidence = 100
    /\ evidenceByCategory = << >> /\ riskScore = 0
    /\ requested = << >> /\ responses = << >>

Answered == pc \in {"answered", "done"} /\ request.method = "POST"

\* C18 as claimed: a body without an image field is answered 500 with an
\* error body and nothing runs; a body with an image field is answered with
\* the serialized result and a success status.
C18_Claimed ==
    Answered =>
        /\ request.body = "no-image" => (response = [status |-> 500, body |-> "error"]
                                         /\ NothingRan)
        /\ request.body \in {"empty-image", "bad-image", "image"}
              => response = [status |-> 200, body |-> "result"]

\* C18 as amended: a body whose image field is missing or falsy is answered
\* 500 with an error body and nothing runs; a body with a truthy image field
\* is answered with the serialized result and a success status, also when
\* the result is the one of a decode failure.
C18_ImageRequired ==
    Answered =>
        /\ request.body \in {"no-image", "empty-image"}
              => (response = [status |-> 500, body |-> "error"] /\ NothingRan)
        /\ request.body \in {"bad-image", "image"}
              => (response = [status |-> 200, body |-> "result"]
                  /\ result # NoResult)

\* an empty image field is refused
C18_Witness ==
    /\ Answered /\ request.body = "empty-image"
    /\ response.status = 500 /\ NothingRan

\* C19: every critical Signal of the ledger has a critical Finding of the
\* same detector in the findings returned.
C19_CriticalSignalHasFinding ==
    NormalReturn =>
        \A c \in DOMAIN evidenceByCategory :
            \A id \in evidenceByCategory[c].critical :
                \E i \in 1..Len(result.findings) :
                    /\ result.findings[i].detector = id
                    /\ result.findings[i].type = "critical"

\* critical Signals of the scanner and of the backends together
C19_Witness ==
    /\ NormalReturn
    /\ EntryOf("ai").critical # {}
    /\ EntryOf("compression").critical # {}
    /\ EntryOf("metadata").critical # {}

\* the loop over the backends ended without a rejected call, so the merge
\* of lines 495-537 ran on the answers parsed
MergeRan ==
    /\ pc \in {"phase2", "done"} /\ apiKey
    /\ Len(responses) = Len(models)
    /\ \A i \in 1..Len(responses) : responses[i].kind \notin ThrowingKinds

\* the distinct backends whose answer was parsed and holds a description
\* for the category
NonEmptyReporters(key) ==
    {responses[i].model : i \in {j \in 1..Len(responses) :
        responses[j].kind = "ok" /\ responses[j].analysis[key] = TextValue}}

\* C21: the merged result holds a category exactly when a successful backend
\* reported a non-empty string for it, and its models list is the set of the
\* distinct backends that did, each listed once.
C21_MergeRule ==
    MergeRan =>
        \A k \in KeySet :
            /\ k \in DOMAIN aiAnalysis <=> NonEmptyReporters(k) # {}
            /\ k \in DOMAIN aiAnalysis =>
                 /\ {aiAnalysis[k][i] : i \in 1..Len(aiAnalysis[k])} = NonEmptyReporters(k)
                 /\ Len(aiAnalysis[k]) = Cardinality(NonEmptyReporters(k))

\* one backend configured twice reports the category twice and is listed
\* once, next to a category nobody reported
C21_Witness ==
    /\ MergeRan /\ Len(models) = 2 /\ models[1] = models[2]
    /\ responses[1].analysis["clonedRegions"] = TextValue
    /\ responses[2].analysis["clonedRegions"] = TextValue
    /\ aiAnalysis["clonedRegions"] = << models[1] >>
    /\ "lightingInconsistencies" \notin DOMAIN aiAnalysis

\* C22: on a JPEG without EXIF the ledger holds a warning Signal in the
\* metadata category and 10 points are deducted; no other format is
\* penalized for missing EXIF.
C22_MissingExifSignal ==
    (NormalReturn /\ format = "JPEG" /\ ~hasExif)
        => /\ "metadata" \in DOMAIN evidenceByCategory
           /\ "exif" \in evidenceByCategory["metadata"].warning

\* the offsets at which the byte pair 0xFF 0xD8 stands
SOIMarkers == {i \in 1..(Len(data) - 1) : data[i] = "FF" /\ data[i + 1] = "D8"}

\* the numeric values of the quality tags of the buffer
TagValues == {QualityOf(data[i]) : i \in {j \in 1..Len(data) : data[j] \in QualityTags}}

QualitySignal == "quality" \in EntryOf("compression").critical

\* C23: on a JPEG the critical compression Signal quality is raised exactly
\* when at least 2 distinct quality values stand in the header, wherever
\* the tags stand.
C23_DistinctQualityValues ==
    (NormalReturn /\ format = "JPEG") =>
        (QualitySignal <=> Cardinality(TagValues) >= 2)

\* C24: recompression is flagged, with its warning Signal and
\* compressionAnomalies, exactly when the buffer holds more than 2 SOI
\* markers; a JPEG with exactly 2 and no quality inconsistency has
\* compressionAnomalies clear.
C24_MoreThanTwoMarkers ==
    NormalReturn =>
        /\ recompressionDetected <=> Cardinality(SOIMarkers) > 2
        /\ recompressionDetected <=> "recompression" \in EntryOf("compression").warning
        /\ recompressionDetected => result.metadata.compressionAnomalies
        /\ (format = "JPEG" /\ Cardinality(SOIMarkers) = 2 /\ ~jpegQualityInconsistent)
              => ~result.metadata.compressionAnomalies

\* a JPEG of three SOI markers
C24_Witness ==
    /\ NormalReturn /\ format = "JPEG" /\ Cardinality(SOIMarkers) = 3
    /\ result.metadata.compressionAnomalies
    /\ "recompression" \in EntryOf("compression").warning

StackedFindings ==
    {i \in 1..Len(result.findings) :
        result.findings[i].detector = "stacked-compression-signals"}

\* C25: the combined critical compression Signal is emitted once, with its
\* deduction of 18, exactly when the format is JPEG and both recompression
\* and quality inconsistency fired; never for a PNG or an UNKNOWN buffer.
C25_StackedSignal ==
    NormalReturn =>
        IF format = "JPEG" /\ recompressionDetected /\ jpegQualityInconsistent
        THEN /\ Cardinality(StackedFindings) = 1
             /\ \A i \in StackedFindings : result.findings[i].type = "critical"
             /\ "stacked-compression-signals" \in EntryOf("compression").critical
             /\ (hasExif /\ softwareSignatures = 0 /\ appSignatures = 0
                 /\ DOMAIN aiAnalysis = {})
                   => result.confidence = 100 - 15 - 25 - 18
        ELSE /\ StackedFindings = {}
             /\ "stacked-compression-signals" \notin EntryOf("compression").critical

\* both detectors fired on a JPEG and the combined Signal is in the ledger
C25_Witness ==
    /\ NormalReturn /\ format = "JPEG"
    /\ recompressionDetected /\ jpegQualityInconsistent
    /\ Cardinality(StackedFindings) = 1
    /\ result.confidence = 42

\* C29: the findings returned are never empty: a result that is not
\* authentic holds a warning or critical Finding, and a result without a
\* Finding of a detector is authentic and holds the one info Finding.
C29_FindingsNeverEmpty ==
    Returned =>
        /\ Len(result.findings) >= 1
        /\ ~result.authentic =>
             \E i \in 1..Len(result.findings) :
                 result.findings[i].type \in {"warning", "critical"}
        /\ (\A i \in 1..Len(result.findings) : result.findings[i].type = "info")
             => /\ result.authentic
                /\ result.findings = << Finding("info", "clean") >>

\* an authentic result without any detector Finding
C29_Witness ==
    /\ NormalReturn /\ result.authentic
    /\ result.findings = << Finding("info", "clean") >>
    /\ Len(responses) = 2

\* the weight table as claimed
C26_Weight(category, severity) ==
    IF category = "metadata" THEN (IF severity = "warning" THEN 6 ELSE 14)
    ELSE IF category = "compression" THEN (IF severity = "warning" THEN 10 ELSE 18)
    ELSE IF category = "format" THEN (IF severity = "warning" THEN 8 ELSE 16)
    ELSE IF category = "ai" THEN (IF severity = "warning" THEN 12 ELSE 25)
    ELSE (IF severity = "warning" THEN 6 ELSE 14)

\* C26: every addEvidence call adds the weight of its category and severity
\* to the risk score, which never decreases, and a call that repeats an
\* earlier (category, identifier, severity) leaves the evidence counts and
\* the category counts as they were.
C26_AddEvidenceIdempotentCounts ==
    [][calls' # calls =>
         LET call == calls'[Len(calls')]
         IN  /\ riskScore' = riskScore + C26_Weight(call.category, call.severity)
             /\ riskScore' >= riskScore
             /\ (\E i \in 1..Len(calls) : calls[i] = call) =>
                  /\ \A severity \in {"warning", "critical"} :
                       /\ getEvidenceCount(evidenceByCategory', severity)
                            = getEvidenceCount(evidenceByCategory, severity)
                       /\ getCategoryCount(evidenceByCategory', severity)
                            = getCategoryCount(evidenceByCategory, severity)
                  /\ getCategoryCountAny(evidenceByCategory')
                       = getCategoryCountAny(evidenceByCategory)]_vars

\* the same critical ai identifier was added twice: counted once, weighed
\* twice
C26_Witness ==
    /\ Len(calls) = 2 /\ calls[1] = calls[2]
    /\ calls[1].category = "ai" /\ calls[1].severity = "critical"
    /\ getEvidenceCount(evidenceByCategory, "critical") = 1
    /\ riskScore = 50

\* the ledger after the calls made so far, applied in the order p
RECURSIVE ReplayCalls(_, _)
ReplayCalls(p, n) ==
    IF n = 0 THEN EmptyLedger
    ELSE addEvidence(ReplayCalls(p, n - 1), calls[p[n]].category,
                     calls[p[n]].signal, calls[p[n]].severity)

\* C27: every order of the addEvidence calls gives the same ledger and so
\* the same editingLikely.
C27_AppendsCommute ==
    pc = "ledger" =>
        \A p \in Permutations(1..Len(calls)) :
            \E L \in {ReplayCalls(p, Len(calls))} :
                /\ L = Ledger
                /\ \A highConfidence \in BOOLEAN :
                     decideEditingLikely(L, highConfidence)
                       = decideEditingLikely(Ledger, highConfidence)

\* one identifier added as a warning and as critical, and a second category
C27_Witness ==
    /\ Len(calls) = 3
    /\ calls[1].category = calls[2].category /\ calls[1].signal = calls[2].signal
    /\ calls[1].severity = "warning" /\ calls[2].severity = "critical"
    /\ calls[3].category # calls[1].category
    /\ Cardinality(DOMAIN evidenceByCategory) = 2

\* C28: when every detector outcome of a second analysis is at least as
\* strong as in a first one that is not authentic, the second is not
\* authentic either.
C28_VerdictMonotone ==
    [][(pc = "compare" /\ ~result.authentic) => ~result'.authentic]_vars

\* a non-authentic analysis reached from weaker ones: a JPEG with
\* recompression, inconsistent quality and pixel manipulation reported by
\* both backends
C28_Witness ==
    /\ pc = "compare" /\ format = "JPEG"
    /\ recompressionDetected /\ jpegQualityInconsistent
    /\ "pixelManipulation" \in DOMAIN aiAnalysis
    /\ Len(aiAnalysis["pixelManipulation"]) = 2
    /\ ~result.authentic

\* the runs of handleAnalyze whose request has not completed or failed
Pending ==
    {i \in 1..Len(ui.requests) : ui.requests[i] \in {"reading", "sent"}}

\* C30: isAnalyzing is true, and the button disabled, for as long as an
\* analysis request has not completed or failed, and at most one request
\* of the component is in flight.
C30_OneRequestInFlight ==
    pc = "upload" =>
        /\ Pending # {} => ui.isAnalyzing
        /\ Cardinality({i \in 1..Len(ui.requests) : ui.requests[i] = "sent"}) <= 1

====
